---- MODULE Spec2Model ----
(***************************************************************************)
(* Model of the Bluetooth connection manager (BluetoothProvider) of the   *)
(* Lumi application: React state of the provider, the Web Bluetooth       *)
(* transport it drives, the pending reconnection timers and the           *)
(* suspended connect() / sendCommand() invocations.                       *)
(*                                                                         *)
(* A function of the provider closes over the React state of the render   *)
(* in which it was created.  A caller (a click handler) always invokes    *)
(* the function of the latest render, so it reads the current state; a    *)
(* function invoked from a timer or an event listener reads the state     *)
(* captured by the connect() invocation that created it.                  *)
(***************************************************************************)
EXTENDS Integers, Sequences, FiniteSets, Bags, TLC

\* ---- bounds of the model ----
\* A run is explored under one profile of bounds, fixed in the initial state:
\* how many connect() and sendCommand() invocations may be suspended at the
\* same time, how many retry timers may be pending, how many
\* gattserverdisconnected listeners one device may carry, up to which value
\* the attempt counters kept for the properties count, how many caller
\* operations and link losses happen, which devices are in range, which
\* commands the caller sends, how requestDevice() may fail, and whether a
\* discovery request may be rejected on an open session (flaky).
CmdInFlight == 1
CmdSends == 1
CmdTimers == 1
CmdListeners == 1
CmdEvents == 4
SessInFlight == 2
SessSends == 1
SessTimers == 2
SessListeners == 2
SessEvents == 3
RetryInFlight == 4
RetryTimers == 3
RetryListeners == 3
RetryCount == 4
RetryEvents == 4

\* Profile "counter": one device, one connect() at a time, enough operations
\* for reconnectAttempts to reach its limit.
CountInFlight == 1
CountTimers == 4
CountListeners == 4
CountEvents == 8

\* updateStreak(): the dates passed are the days 0..MaxDay.
MaxDay == 6

\* ---- program constants ----
MAX_ATTEMPTS == 3
BACKOFF_UNIT == 1000
MS_PER_DAY == 86400000

None == "none"

OFF == 0
WATER == 1
BALANCED == 2
UNBALANCED == 3
GREAT_FINISH == 4
BAD_FINISH == 5
LED_COMMANDS == {OFF, WATER, BALANCED, UNBALANCED, GREAT_FINISH, BAD_FINISH}

\* The accessories in range.  d1 exposes the well-known service and
\* characteristic; d2 does not and is resolved by enumeration; d3 exposes
\* no characteristic that can be written.
Devices == {"d1", "d2", "d3"}

Props(w, wwr, n) == [write |-> w, writeWithoutResponse |-> wwr, notify |-> n]

\* The GATT layout a device reports: whether the well-known service and
\* characteristic exist, and every service with its characteristics in
\* platform-reported order.
Layout(d) ==
    IF d = "d1"
    THEN [known |-> TRUE, knownCid |-> "arduino",
          services |-> << << [cid |-> "arduino", props |-> Props(TRUE, TRUE, TRUE)] >> >>]
    ELSE IF d = "d3"
    THEN [known |-> FALSE, knownCid |-> None,
          services |-> << << [cid |-> "ro3", props |-> Props(FALSE, FALSE, TRUE)] >>,
                          << [cid |-> "ro4", props |-> Props(FALSE, FALSE, FALSE)] >> >>]
    ELSE [known |-> FALSE, knownCid |-> None,
          services |-> << << [cid |-> "ro", props |-> Props(FALSE, FALSE, FALSE)] >>,
                          << [cid |-> "ro2", props |-> Props(FALSE, FALSE, TRUE)],
                             [cid |-> "wwr", props |-> Props(FALSE, TRUE, FALSE)],
                             [cid |-> "rw", props |-> Props(TRUE, FALSE, FALSE)] >> >>]

AllChars(d) ==
    UNION { { Layout(d).services[i][j] : j \in 1..Len(Layout(d).services[i]) }
            : i \in 1..Len(Layout(d).services) }

PropsOf(d, c) == (CHOOSE x \in AllChars(d) : x.cid = c).props

\* A characteristic object held by the program.  It stops being usable when
\* the session it was obtained from closes (stale).
Handle(d, c) == [dev |-> d, cid |-> c, stale |-> FALSE]
NoChar == [dev |-> None, cid |-> None, stale |-> FALSE]

Profiles ==
    { [name |-> "commands", devs |-> {"d1", "d2", "d3"}, cmds |-> LED_COMMANDS,
       reqErrors |-> {"NotFoundError"}, flaky |-> FALSE,
       inFlight |-> CmdInFlight, callers |-> 1, sends |-> CmdSends, timers |-> CmdTimers,
       listeners |-> CmdListeners, count |-> 0, events |-> CmdEvents],
      [name |-> "sessions", devs |-> {"d1", "d2"}, cmds |-> {WATER},
       reqErrors |-> {"NotFoundError", "SecurityError", "NotAllowedError"},
       flaky |-> TRUE,
       inFlight |-> SessInFlight, callers |-> 2, sends |-> SessSends, timers |-> SessTimers,
       listeners |-> SessListeners, count |-> 0, events |-> SessEvents],
      [name |-> "retries", devs |-> {"d1"}, cmds |-> {},
       reqErrors |-> {"SecurityError"}, flaky |-> FALSE,
       inFlight |-> RetryInFlight, callers |-> 1, sends |-> 0, timers |-> RetryTimers,
       listeners |-> RetryListeners, count |-> RetryCount,
       events |-> RetryEvents],
      [name |-> "counter", devs |-> {"d1"}, cmds |-> {},
       reqErrors |-> {"SecurityError"}, flaky |-> FALSE,
       inFlight |-> CountInFlight, callers |-> 1, sends |-> 0, timers |-> CountTimers,
       listeners |-> CountListeners, count |-> 0,
       events |-> CountEvents] }

VARIABLES
    bound,           \* the profile of bounds of this run
    \* React state of BluetoothProvider
    device, characteristic, isConnected, isConnecting, deviceName, error,
    lastCommand, reconnectAttempts,
    \* host platform and transport
    host,            \* "ok", or why Web Bluetooth cannot be used on this host
    gattConnected,   \* device -> device.gatt.connected
    listeners,       \* device -> sequence of the reconnectAttempts values captured
                     \*           by its gattserverdisconnected listeners
    timers,          \* bag of pending reconnection timers
    conns,           \* bag of suspended connect() invocations
    sends,           \* bag of suspended sendCommand() invocations
    \* observation
    lastOp,          \* the step taken last and what it did
    events,          \* caller operations and link losses so far
    seqOpen,         \* a retry sequence is in progress: the link was lost while
                     \* connected and since then no connect() has succeeded and the
                     \* caller has called neither connect() nor disconnect()
    seqFailed,       \* reconnection attempts of that sequence that have failed
    seqCounting,     \* the link was lost while connected and the status has been
                     \* neither Connected nor Failed since
    seqStarted,      \* reconnection attempts started while seqCounting
    \* server: the key-value store entry streak:<userId> and the last call
    streakData,      \* the set of the stored record, empty while the key is absent
    streakOp         \* the last updateStreak() call: its date, isBalanced,
                     \* whether it stored a record, and whether it repeated the
                     \* stored call before it

managerVars ==
    << bound, device, characteristic, isConnected, isConnecting, deviceName, error,
       lastCommand, reconnectAttempts, host, gattConnected, listeners, timers,
       conns, sends, lastOp, events, seqOpen, seqFailed, seqCounting, seqStarted >>

streakVars == << streakData, streakOp >>

vars == << managerVars, streakVars >>

seqVars == << seqOpen, seqFailed, seqCounting, seqStarted >>

reactVars == << device, characteristic, isConnected, isConnecting, deviceName, error,
                lastCommand, reconnectAttempts >>

\* ---- helpers ----

Min(a, b) == IF a < b THEN a ELSE b

One(x) == SetToBag({x})

EncodeNext(command) == << (command + 1) % 256 >>

\* new Uint8Array([command]): one element, reduced modulo 2^8
Encode(command) == << command % 256 >>

NoWrite == [char |-> NoChar, bytes |-> << >>, mode |-> None]

\* What a step reports: the operation, its command code (-1 if none), whether
\* it succeeded, the notifications it raised, the write attempts it issued,
\* the write the transport accepted in it, the timers it scheduled, and the
\* device it concerns (None when it is about no particular device).
Op(name, cmd, ok, notes, attempts, write, sched, tag) ==
    [op |-> name, cmd |-> cmd, ok |-> ok, notes |-> notes, attempts |-> attempts,
     write |-> write, sched |-> sched, tag |-> tag, abandoned |-> FALSE,
     dev |-> None]

\* The same for a step of a connect() during which disconnect() was called.
OpOf(r, name, cmd, ok, notes, attempts, write, sched, tag) ==
    [Op(name, cmd, ok, notes, attempts, write, sched, tag)
        EXCEPT !.abandoned = r.abandoned, !.dev = r.dev]

\* The observable connection status (BluetoothContextType has no value for
\* a reconnection in progress).
Status ==
    IF isConnected THEN "Connected"
    ELSE IF isConnecting THEN "Connecting"
    ELSE IF error /= None THEN "Failed"
    ELSE "Disconnected"

\* A suspended connect(): its await point, the reconnectAttempts value its
\* closure captured, whether a retry timer invoked it, the device it selected,
\* the characteristic it resolved, whether the operation it awaits was issued
\* on a session that is still open, the index of the service it enumerates,
\* whether disconnect() has been called since it was invoked, and whether it
\* is an attempt of the retry sequence in progress.
Conn(pc, ra, byTimer, dev, char, live, i) ==
    [pc |-> pc, ra |-> ra, byTimer |-> byTimer, dev |-> dev, char |-> char,
     live |-> live, i |-> i, abandoned |-> FALSE,
     seq |-> byTimer /\ seqOpen /\ bound.count > 0]

Abandon(r) == [r EXCEPT !.abandoned = TRUE]

\* The session of device d closes: pending operations on it will reject and
\* the characteristic objects obtained from it become unusable.
DropHandle(d, h) == IF h.dev = d THEN [h EXCEPT !.stale = TRUE] ELSE h

DropConn(d, r) ==
    IF r.dev = d /\ r.pc /= "gattConn"
    THEN [r EXCEPT !.live = FALSE, !.char = DropHandle(d, r.char)]
    ELSE r

DropSend(d, s) == [s EXCEPT !.char = DropHandle(d, s.char)]

\* The transport accepts a write on handle h in the given mode.
WriteAccepts(h, mode) ==
    /\ h /= NoChar
    /\ ~h.stale
    /\ gattConnected[h.dev]
    /\ IF mode = "ack" THEN PropsOf(h.dev, h.cid).write
                       ELSE PropsOf(h.dev, h.cid).writeWithoutResponse

\* A discovery request rejects when its session has closed or the device
\* lacks what is asked for (~possible), and may reject for a platform reason.
Rejects(possible) == ~possible \/ bound.flaky

FirstAny(chars) == IF chars = << >> THEN 0 ELSE 1

LastWritable(chars) ==
    LET ok == { j \in 1..Len(chars) :
                  chars[j].props.write \/ chars[j].props.writeWithoutResponse }
    IN IF ok = {} THEN 0 ELSE CHOOSE j \in ok : \A k \in ok : j >= k

\* First characteristic of a list with write or writeWithoutResponse, 0 if none.
FirstWritable(chars) ==
    LET ok == { j \in 1..Len(chars) :
                  chars[j].props.write \/ chars[j].props.writeWithoutResponse }
    IN IF ok = {} THEN 0 ELSE CHOOSE j \in ok : \A k \in ok : j <= k

NoMessage(e) == None

\* The message the catch block of connect() records for a failure.
ErrorMessage(e) ==
    CASE e = "SecurityError" -> "Bluetooth bloqueado"
      [] e = "NotFoundError" -> "No se encontro dispositivo"
      [] e = "NotAllowedError" -> "Permiso denegado"
      [] OTHER -> e

\* ---- the gattserverdisconnected listeners of a device ----

\* Listeners whose captured counter allows a retry, in registration order.
RetryingAtLimit(L) == SelectSeq(L, LAMBDA ra : ra <= MAX_ATTEMPTS)

Retrying(L) == SelectSeq(L, LAMBDA ra : ra < MAX_ATTEMPTS)
GivingUp(L) == SelectSeq(L, LAMBDA ra : ~(ra < MAX_ATTEMPTS))

RECURSIVE TimersOf(_, _)
TimersOf(L, cause) ==
    IF L = << >> THEN EmptyBag
    ELSE One([ra |-> Head(L), cause |-> cause, cancelled |-> FALSE])
           (+) TimersOf(Tail(L), cause)

\* The delay of the timer a listener schedules: 1000 * attempt, where attempt
\* is the reconnectAttempts captured by the listener's closure plus one.
Backoff(ra) == BACKOFF_UNIT * (ra + 1)

\* reconnectAttempts after every listener of L has run
AttemptsAfter(L, cur) ==
    IF Retrying(L) = << >> THEN cur ELSE Retrying(L)[Len(Retrying(L))] + 1

Notes(L) == [j \in 1..Len(GivingUp(L)) |-> "Disconnected"]

\* ---- bookkeeping for the properties ----

Sat(n) == Min(n, bound.count)

\* A caller operation or a link loss, within the bound of the run.
Event ==
    /\ events < bound.events
    /\ events' = events + 1

\* The bookkeeping of retry sequences, kept in the runs whose profile counts
\* attempts: whether a sequence stays open, whether the status has stayed
\* unsettled, and the attempts started and failed so far.
Keep(open, counting, started, failed) ==
    /\ seqOpen' = (open /\ bound.count > 0)
    /\ seqFailed' = IF seqOpen' THEN Sat(failed) ELSE 0
    /\ seqCounting' = ( /\ counting /\ bound.count > 0
                        /\ ~isConnected'
                        /\ (isConnecting' \/ error' = None) )
    /\ seqStarted' = IF seqCounting' THEN Sat(started) ELSE 0

Same == Keep(seqOpen, seqCounting, seqStarted, seqFailed)

Hosts == {"ok", "NoBluetooth", "NoSecureContext"}

\* ---- updateStreak() ----

\* The entry streak:<userId> of the store is the empty set while the key was
\* never set (kv.get() returns null) and the set of the one stored record
\* afterwards.
NoStreak == { }

\* The record updateStreak() starts from when the key is absent.  The date
\* null is written -1.
NewStreak == [currentStreak |-> 0, longestStreak |-> 0, lastBalancedDate |-> -1]

Days == 0..MaxDay

\* new Date(date).getTime() of the date string of day d, in ms.
DateTime(d) == d * MS_PER_DAY

\* Math.floor((currentDateTime - lastDateTime) / (1000 * 60 * 60 * 24))
DaysDiff(last, date) == (DateTime(date) - DateTime(last)) \div MS_PER_DAY

Second(a, b) == b

MathMax(a, b) == IF a >= b THEN a ELSE b

\* The record updateStreak(userId, date, isBalanced) stores, from the record
\* kv.get() returned.
UpdatedStreak(stored, date, isBalanced) ==
    LET data == IF stored = NoStreak THEN NewStreak ELSE CHOOSE r \in stored : TRUE
        last == data.lastBalancedDate
    IN IF isBalanced
       THEN IF last = -1
            THEN [currentStreak |-> 1,
                  longestStreak |-> MathMax(1, data.longestStreak),
                  lastBalancedDate |-> date]
            ELSE IF DaysDiff(last, date) = 1
            THEN [currentStreak |-> data.currentStreak + 1,
                  longestStreak |-> MathMax(data.currentStreak + 1, data.longestStreak),
                  lastBalancedDate |-> date]
            ELSE IF DaysDiff(last, date) > 1
            THEN [data EXCEPT !.currentStreak = 1, !.lastBalancedDate = date]
            ELSE data
       ELSE IF last /= -1 /\ DaysDiff(last, date) > 1
            THEN [data EXCEPT !.currentStreak = 0]
            ELSE data

StreakOp(date, isBalanced, stored, repeated) ==
    [date |-> date, isBalanced |-> isBalanced, stored |-> stored, repeated |-> repeated]

TypeOK ==
    /\ host \in Hosts
    /\ device \in Devices \cup {None}
    /\ isConnected \in BOOLEAN /\ isConnecting \in BOOLEAN
    /\ deviceName \in Devices \cup {None}
    /\ lastCommand \in LED_COMMANDS \cup {-1}
    /\ reconnectAttempts \in 0..MAX_ATTEMPTS
    /\ gattConnected \in [Devices -> BOOLEAN]
    /\ \A d \in Devices : Len(listeners[d]) <= bound.listeners
    /\ BagCardinality(timers) <= bound.timers
    /\ BagCardinality(conns) <= bound.inFlight
    /\ BagCardinality(sends) <= bound.sends
    /\ events \in 0..bound.events
    /\ seqStarted \in 0..bound.count /\ seqFailed \in 0..bound.count
    /\ seqOpen \in BOOLEAN /\ seqCounting \in BOOLEAN

Init ==
    /\ bound \in Profiles
    /\ device = None
    /\ characteristic = NoChar
    /\ isConnected = FALSE
    /\ isConnecting = FALSE
    /\ deviceName = None
    /\ host \in Hosts
    /\ error = (IF host = "NoBluetooth" THEN host ELSE None)
    /\ lastCommand = -1
    /\ reconnectAttempts = 0
    /\ gattConnected = [d \in Devices |-> FALSE]
    /\ listeners = [d \in Devices |-> << >>]
    /\ timers = EmptyBag
    /\ conns = EmptyBag
    /\ sends = EmptyBag
    /\ lastOp = Op("init", -1, TRUE, << >>, 0, NoWrite, 0, None)
    /\ events = 0
    /\ seqOpen = FALSE
    /\ seqFailed = 0
    /\ seqCounting = FALSE
    /\ seqStarted = 0
    /\ streakData = NoStreak
    /\ streakOp = StreakOp(0, FALSE, FALSE, FALSE)

\* ---- connect() ----

AlwaysAvailable(h) == TRUE

\* The two checks at the entry of connect(): navigator.bluetooth exists and
\* the context is secure.
Available(h) == h = "ok"

\* connect() up to its first await that matters: the availability checks,
\* setIsConnecting(true), setError(null) and the requestDevice() call.  ra is
\* the reconnectAttempts value of the closure the invoked connect belongs to.
ConnectEntry(ra, byTimer, name, tag) ==
    /\ IF Available(host)
       THEN /\ BagCardinality(conns) < bound.inFlight
            /\ byTimer \/ \A r \in BagToSet(conns) : r.byTimer \/ bound.callers > 1
            /\ isConnecting' = TRUE
            /\ error' = None
            /\ conns' = conns (+) One(Conn("reqDev", ra, byTimer, None, NoChar, FALSE, 0))
       ELSE /\ error' = host
            /\ UNCHANGED << isConnecting, conns >>
    /\ lastOp' = Op(name, -1, Available(host), << >>, 0, NoWrite, 0, tag)
    /\ UNCHANGED << device, characteristic, isConnected, deviceName, lastCommand,
                    reconnectAttempts, bound, host, gattConnected, listeners, sends >>

\* The caller invokes connect() of the latest render.
Connect ==
    /\ UNCHANGED streakVars
    /\ /\ Event
       /\ ConnectEntry(reconnectAttempts, FALSE, "connect", None)
       /\ UNCHANGED timers
       /\ Keep(FALSE, FALSE, 0, 0)

\* A reconnection timer fires and invokes the connect() of the closure that
\* scheduled it.
TimerFire ==
    /\ UNCHANGED streakVars
    /\ \E t \in BagToSet(timers) :
           /\ timers' = timers (-) One(t)
           /\ ConnectEntry(t.ra, TRUE, "timerFire",
                           IF t.cancelled THEN "afterDisconnect" ELSE t.cause)
           /\ UNCHANGED events
           /\ Keep(seqOpen, seqCounting, seqStarted + 1, seqFailed)

\* The catch and finally blocks of connect().
ConnFail(r, name, msg) ==
    /\ error' = msg
    /\ isConnected' = FALSE
    /\ characteristic' = NoChar
    /\ isConnecting' = FALSE
    /\ conns' = conns (-) One(r)
    /\ lastOp' = OpOf(r, name, -1, FALSE, << "Error" >>, 0, NoWrite, 0,
                      IF r.byTimer THEN "retry" ELSE "caller")
    /\ UNCHANGED << lastCommand, reconnectAttempts, bound, host, events, timers, sends >>
    /\ Keep(seqOpen, seqCounting, seqStarted,
            IF r.seq THEN seqFailed + 1 ELSE seqFailed)

\* requestDevice() settles: the user picks a device, or the chooser is
\* cancelled or blocked.
RequestDeviceDone ==
    /\ UNCHANGED streakVars
    /\ \E r \in BagToSet(conns) :
           /\ r.pc = "reqDev"
           /\ \/ \E d \in bound.devs :
                   /\ Len(listeners[d]) < bound.listeners
                   /\ device' = d
                   /\ deviceName' = d
                   /\ listeners' = [listeners EXCEPT ![d] = Append(@, r.ra)]
                   /\ conns' = (conns (-) One(r))
                                 (+) One([r EXCEPT !.pc = "gattConn", !.dev = d])
                   /\ lastOp' = Op("requestDevice", -1, TRUE, << >>, 0, NoWrite, 0, None)
                   /\ UNCHANGED << characteristic, isConnected, isConnecting, error,
                                   lastCommand, reconnectAttempts, bound, host, events, gattConnected,
                                   timers, sends, seqVars >>
              \/ \E e \in bound.reqErrors :
                   /\ ConnFail(r, "requestDevice", ErrorMessage(e))
                   /\ UNCHANGED << device, deviceName, gattConnected, listeners >>

\* gatt.connect() settles; on success getPrimaryService() is called.
GattConnectDone ==
    /\ UNCHANGED streakVars
    /\ \E r \in BagToSet(conns) :
           /\ r.pc = "gattConn"
           /\ \/ /\ gattConnected' = [gattConnected EXCEPT ![r.dev] = TRUE]
                 /\ conns' = (conns (-) One(r))
                               (+) One([r EXCEPT !.pc = "getSvc", !.live = TRUE])
                 /\ lastOp' = Op("gattConnect", -1, TRUE, << >>, 0, NoWrite, 0, None)
                 /\ UNCHANGED << reactVars, bound, host, events, listeners, timers, sends, seqVars >>
              \/ /\ bound.flaky
                 /\ ConnFail(r, "gattConnect", "NetworkError")
                 /\ UNCHANGED << device, deviceName, gattConnected, listeners >>

HeldEndpoint(held, h) == IF held /= NoChar THEN held ELSE h

\* setCharacteristic(char): the endpoint is the characteristic this connect()
\* has resolved, whatever was held before.
Endpoint(held, h) == h

\* The characteristic h has been resolved.  With notify, startNotifications()
\* is awaited first; otherwise connect() records the endpoint, marks itself
\* connected, raises the notification and calls sendCommandInternal(OFF),
\* which issues writeValue().
MarkConnected(r, h, name) ==
    /\ characteristic' = Endpoint(characteristic, h)
    /\ isConnected' = TRUE
    /\ error' = None
    /\ conns' = (conns (-) One(r)) (+) One([r EXCEPT !.pc = "writeAck", !.char = h, !.i = 0])
    /\ lastOp' = OpOf(r, name, OFF, TRUE, << "Connected" >>, 1, NoWrite, 0, "markConnected")
    /\ UNCHANGED << device, isConnecting, deviceName, lastCommand, reconnectAttempts,
                    bound, host, events, gattConnected, listeners, timers, sends >>
    /\ Keep(FALSE, FALSE, 0, 0)

Resolved(r, h, name) ==
    IF PropsOf(h.dev, h.cid).notify
    THEN /\ conns' = (conns (-) One(r))
                       (+) One([r EXCEPT !.pc = "startNotif", !.char = h, !.i = 0])
         /\ lastOp' = OpOf(r, name, -1, TRUE, << >>, 0, NoWrite, 0, None)
         /\ UNCHANGED << reactVars, bound, host, events, gattConnected, listeners, timers, sends,
                         seqVars >>
    ELSE MarkConnected(r, h, name)

\* getPrimaryServices() is called after the well-known lookup has failed.
Enumerate(r, name) ==
    /\ conns' = (conns (-) One(r))
                  (+) One([r EXCEPT !.pc = "getSvcs", !.live = gattConnected[r.dev]])
    /\ lastOp' = Op(name, -1, FALSE, << >>, 0, NoWrite, 0, None)
    /\ UNCHANGED << reactVars, bound, host, events, gattConnected, listeners, timers, sends,
                    seqVars >>

\* getPrimaryService(ARDUINO_SERVICE_UUID) settles.
GetPrimaryServiceDone ==
    /\ UNCHANGED streakVars
    /\ \E r \in BagToSet(conns) :
           /\ r.pc = "getSvc"
           /\ \/ /\ r.live /\ Layout(r.dev).known
                 /\ conns' = (conns (-) One(r)) (+) One([r EXCEPT !.pc = "getChar"])
                 /\ lastOp' = Op("getPrimaryService", -1, TRUE, << >>, 0, NoWrite, 0, None)
                 /\ UNCHANGED << reactVars, bound, host, events, gattConnected, listeners, timers, sends,
                                 seqVars >>
              \/ /\ Rejects(r.live /\ Layout(r.dev).known)
                 /\ Enumerate(r, "getPrimaryService")

\* getCharacteristic(ARDUINO_CHARACTERISTIC_UUID) settles.
GetCharacteristicDone ==
    /\ UNCHANGED streakVars
    /\ \E r \in BagToSet(conns) :
           /\ r.pc = "getChar"
           /\ \/ /\ r.live
                 /\ Resolved(r, Handle(r.dev, Layout(r.dev).knownCid), "getCharacteristic")
              \/ /\ Rejects(r.live)
                 /\ Enumerate(r, "getCharacteristic")

\* getCharacteristics() of the service after service i is called, or connect()
\* throws because no service is left and no characteristic was chosen.
NextService(r, i, name) ==
    IF i < Len(Layout(r.dev).services)
    THEN /\ conns' = (conns (-) One(r))
                       (+) One([r EXCEPT !.pc = "getChars", !.i = i + 1,
                                         !.live = gattConnected[r.dev]])
         /\ lastOp' = Op(name, -1, FALSE, << >>, 0, NoWrite, 0, None)
         /\ UNCHANGED << reactVars, bound, host, events, gattConnected, listeners, timers, sends,
                         seqVars >>
    ELSE /\ ConnFail(r, name, "NoWritableCharacteristic")
         /\ UNCHANGED << device, deviceName, gattConnected, listeners >>

\* getPrimaryServices() settles.
GetPrimaryServicesDone ==
    /\ UNCHANGED streakVars
    /\ \E r \in BagToSet(conns) :
           /\ r.pc = "getSvcs"
           /\ \/ /\ r.live
                 /\ NextService(r, 0, "getPrimaryServices")
              \/ /\ Rejects(r.live)
                 /\ ConnFail(r, "getPrimaryServices", "NetworkError")
                 /\ UNCHANGED << device, deviceName, gattConnected, listeners >>

\* getCharacteristics() of service r.i settles: the first characteristic with
\* write or writeWithoutResponse is chosen; a rejection is swallowed and the
\* next service is tried.
GetCharacteristicsDone ==
    /\ UNCHANGED streakVars
    /\ \E r \in BagToSet(conns) :
           /\ r.pc = "getChars"
           /\ LET chars == Layout(r.dev).services[r.i]
                  j == FirstWritable(chars)
              IN \/ /\ r.live
                    /\ IF j > 0
                       THEN Resolved(r, Handle(r.dev, chars[j].cid), "getCharacteristics")
                       ELSE NextService(r, r.i, "getCharacteristics")
                 \/ /\ Rejects(r.live)
                    /\ NextService(r, r.i, "getCharacteristics")

\* startNotifications() settles.
StartNotificationsDone ==
    /\ UNCHANGED streakVars
    /\ \E r \in BagToSet(conns) :
           /\ r.pc = "startNotif"
           /\ \/ /\ ~r.char.stale
                 /\ MarkConnected(r, r.char, "startNotifications")
              \/ /\ Rejects(~r.char.stale)
                 /\ ConnFail(r, "startNotifications", "NetworkError")
                 /\ UNCHANGED << device, deviceName, gattConnected, listeners >>

\* ---- sendCommandInternal() ----

NoNotes(command) == << >>

AlwaysNotes(command) == << "HydrationReminder" >>

\* The hydration notification is raised for WATER only.
HydrationNotes(command) ==
    IF command = WATER THEN << "HydrationReminder" >> ELSE << >>

\* The write in the given mode has been accepted: setLastCommand and, for
\* WATER, the hydration notification.
Sent(h, command, mode, name, tag, abandoned) ==
    /\ lastCommand' = command
    /\ lastOp' = [Op(name, command, TRUE, HydrationNotes(command),
                    0, [char |-> h, bytes |-> Encode(command), mode |-> mode], 0, tag)
                   EXCEPT !.abandoned = abandoned]

\* The initial OFF of connect(): writeValue() settles.  On rejection
\* writeValueWithoutResponse() is called if the platform has it.
ConnectWriteDone ==
    /\ UNCHANGED streakVars
    /\ \E r \in BagToSet(conns) :
           /\ r.pc = "writeAck"
           /\ \/ /\ WriteAccepts(r.char, "ack")
                 /\ Sent(r.char, OFF, "ack", "connectWrite", "connected", r.abandoned)
                 /\ isConnecting' = FALSE
                 /\ conns' = conns (-) One(r)
                 /\ UNCHANGED << device, characteristic, isConnected, deviceName, error,
                                 reconnectAttempts, bound, host, events, gattConnected, listeners, timers,
                                 sends >>
                 /\ Same
              \/ \E hasMethod \in BOOLEAN :
                   IF hasMethod
                   THEN /\ conns' = (conns (-) One(r)) (+) One([r EXCEPT !.pc = "writeNoAck"])
                        /\ lastOp' = Op("connectWrite", OFF, FALSE, << >>, 1, NoWrite, 0, None)
                        /\ UNCHANGED << reactVars, bound, host, events, gattConnected, listeners, timers,
                                        sends, seqVars >>
                   ELSE /\ ConnFail(r, "connectWrite", "WriteError")
                        /\ UNCHANGED << device, deviceName, gattConnected, listeners >>

\* The initial OFF of connect(): writeValueWithoutResponse() settles.
ConnectFallbackDone ==
    /\ UNCHANGED streakVars
    /\ \E r \in BagToSet(conns) :
           /\ r.pc = "writeNoAck"
           /\ \/ /\ WriteAccepts(r.char, "noack")
                 /\ Sent(r.char, OFF, "noack", "connectFallback", "connected", r.abandoned)
                 /\ isConnecting' = FALSE
                 /\ conns' = conns (-) One(r)
                 /\ UNCHANGED << device, characteristic, isConnected, deviceName, error,
                                 reconnectAttempts, bound, host, events, gattConnected, listeners, timers,
                                 sends >>
                 /\ Same
              \/ /\ ConnFail(r, "connectFallback", "WriteError")
                 /\ UNCHANGED << device, deviceName, gattConnected, listeners >>

\* ---- session close ----

\* The session of d closes and every gattserverdisconnected listener of d
\* runs, in registration order: setIsConnected(false), setCharacteristic(null),
\* then a retry timer if the captured counter is below the maximum, else
\* handleDisconnect().  cur is the React state before the listeners run.
CloseSession(d, cause) ==
    LET L == listeners[d]
    IN /\ gattConnected' = [gattConnected EXCEPT ![d] = FALSE]
       /\ conns' = BagOfAll(LAMBDA r : IF cause = "disconnect"
                                        THEN Abandon(DropConn(d, r))
                                        ELSE IF isConnected /\ characteristic.dev = d
                                        THEN [DropConn(d, r) EXCEPT !.seq = FALSE]
                                        ELSE DropConn(d, r),
                            conns)
       /\ sends' = BagOfAll(LAMBDA x : DropSend(d, x), sends)
       /\ timers' = BagOfAll(LAMBDA t : IF cause = "disconnect"
                                         THEN [t EXCEPT !.cancelled = TRUE] ELSE t,
                             timers)
                      (+) TimersOf(Retrying(L), cause)
       /\ reconnectAttempts' = AttemptsAfter(L, reconnectAttempts)

\* Unsolicited link loss of device d.
LinkLoss ==
    /\ UNCHANGED streakVars
    /\ \E d \in Devices :
           /\ gattConnected[d]
           /\ Event
           /\ BagCardinality(timers) + Len(Retrying(listeners[d])) <= bound.timers
           /\ CloseSession(d, "loss")
           /\ IF listeners[d] /= << >>
              THEN /\ isConnected' = FALSE
                   /\ characteristic' = NoChar
              ELSE UNCHANGED << isConnected, characteristic >>
           /\ IF GivingUp(listeners[d]) /= << >>
              THEN /\ deviceName' = None
                   /\ error' = "Dispositivo desconectado"
              ELSE UNCHANGED << deviceName, error >>
           /\ lastOp' = [Op("linkLoss", -1, TRUE, Notes(listeners[d]), 0, NoWrite,
                            Len(Retrying(listeners[d])),
                            IF isConnected /\ characteristic.dev = d
                            THEN "connected" ELSE None)
                           EXCEPT !.dev = d]
           /\ UNCHANGED << device, isConnecting, lastCommand, bound, host, listeners >>
           /\ IF isConnected /\ characteristic.dev = d
              THEN Keep(TRUE, TRUE, 0, 0) ELSE Same

NotConnectedError(open, e) ==
    IF open THEN e ELSE "No hay conexion Bluetooth activa"

\* disconnect() never calls setError: the last error stays what it was,
\* whether or not a session was open.
KeptError(open, e) == e

\* disconnect() of the latest render.  device.gatt.disconnect() closes the
\* session, which dispatches gattserverdisconnected to the listeners.
Disconnect ==
    /\ UNCHANGED streakVars
    /\ LET open == device /= None /\ gattConnected[device]
           L == IF open THEN listeners[device] ELSE << >>
       IN /\ Event
          /\ BagCardinality(timers) + Len(Retrying(L)) <= bound.timers
          /\ IF open
             THEN CloseSession(device, "disconnect")
             ELSE /\ timers' = BagOfAll(LAMBDA t : [t EXCEPT !.cancelled = TRUE], timers)
                  /\ conns' = BagOfAll(Abandon, conns)
                  /\ UNCHANGED << gattConnected, sends, reconnectAttempts >>
          /\ error' = IF GivingUp(L) /= << >>
                      THEN "Dispositivo desconectado"
                      ELSE KeptError(open, error)
          /\ device' = None
          /\ characteristic' = NoChar
          /\ isConnected' = FALSE
          /\ deviceName' = None
          /\ lastCommand' = -1
          /\ lastOp' = Op("disconnect", -1, TRUE, Notes(L), 0, NoWrite, Len(Retrying(L)),
                          IF open THEN "closed"
                          ELSE IF lastOp.op = "disconnect" THEN "again" ELSE None)
          /\ UNCHANGED << isConnecting, bound, host, listeners >>
          /\ Keep(FALSE, FALSE, 0, 0)

\* ---- sendCommand() ----

NoGuard(connected, h) == FALSE

\* The guard of sendCommand(): !isConnected || !characteristic
NotReady(connected, h) == ~connected \/ h = NoChar

Send(command, h, dev, pc) == [cmd |-> command, char |-> h, dev |-> dev, pc |-> pc]

\* sendCommand(command) of the latest render: the guard, then
\* sendCommandInternal() issues writeValue().
SendCommand ==
    /\ UNCHANGED streakVars
    /\ \E command \in bound.cmds :
         /\ Event
         /\
           IF NotReady(isConnected, characteristic)
           THEN /\ error' = "No hay conexion Bluetooth activa"
                /\ lastOp' = Op("sendCommand", command, FALSE, << >>, 0, NoWrite, 0,
                                "notConnected")
                /\ UNCHANGED << device, characteristic, isConnected, isConnecting,
                                deviceName, lastCommand, reconnectAttempts, bound, host,
                                gattConnected, listeners, timers, conns, sends >>
                /\ Same
           ELSE /\ BagCardinality(sends) < bound.sends
                /\ sends' = sends (+) One(Send(command, characteristic, device, "writeAck"))
                /\ lastOp' = Op("sendCommand", command, TRUE, << >>, 1, NoWrite, 0, None)
                /\ UNCHANGED << reactVars, bound, host, gattConnected, listeners, timers, conns,
                                seqVars >>

\* The catch block of sendCommand().
SendFail(x, name) ==
    /\ error' = "Error al enviar comando al dispositivo"
    /\ IF x.dev /= None /\ ~gattConnected[x.dev]
       THEN /\ isConnected' = FALSE
            /\ characteristic' = NoChar
       ELSE UNCHANGED << isConnected, characteristic >>
    /\ sends' = sends (-) One(x)
    /\ lastOp' = Op(name, x.cmd, FALSE, << >>, 0, NoWrite, 0, "send")
    /\ UNCHANGED << device, isConnecting, deviceName, lastCommand, reconnectAttempts,
                    bound, host, events, gattConnected, listeners, timers, conns >>
    /\ Same

SendOk(x, mode, name) ==
    /\ Sent(x.char, x.cmd, mode, name, "send", FALSE)
    /\ error' = None
    /\ sends' = sends (-) One(x)
    /\ UNCHANGED << device, characteristic, isConnected, isConnecting, deviceName,
                    reconnectAttempts, bound, host, events, gattConnected, listeners, timers, conns >>
    /\ Same

\* writeValue() of a sendCommand() settles.
SendWriteDone ==
    /\ UNCHANGED streakVars
    /\ \E x \in BagToSet(sends) :
           /\ x.pc = "writeAck"
           /\ \/ /\ WriteAccepts(x.char, "ack")
                 /\ SendOk(x, "ack", "sendWrite")
              \/ \E hasMethod \in BOOLEAN :
                   IF hasMethod
                   THEN /\ sends' = (sends (-) One(x)) (+) One([x EXCEPT !.pc = "writeNoAck"])
                        /\ lastOp' = Op("sendWrite", x.cmd, FALSE, << >>, 1, NoWrite, 0, None)
                        /\ UNCHANGED << reactVars, bound, host, events, gattConnected, listeners, timers,
                                        conns, seqVars >>
                   ELSE SendFail(x, "sendWrite")

\* writeValueWithoutResponse() of a sendCommand() settles.
SendFallbackDone ==
    /\ UNCHANGED streakVars
    /\ \E x \in BagToSet(sends) :
           /\ x.pc = "writeNoAck"
           /\ \/ /\ WriteAccepts(x.char, "noack")
                 /\ SendOk(x, "noack", "sendFallback")
              \/ SendFail(x, "sendFallback")

Next ==
    \/ Connect
    \/ TimerFire
    \/ RequestDeviceDone
    \/ GattConnectDone
    \/ GetPrimaryServiceDone
    \/ GetCharacteristicDone
    \/ GetPrimaryServicesDone
    \/ GetCharacteristicsDone
    \/ StartNotificationsDone
    \/ ConnectWriteDone
    \/ ConnectFallbackDone
    \/ LinkLoss
    \/ Disconnect
    \/ SendCommand
    \/ SendWriteDone
    \/ SendFallbackDone

Spec == Init /\ [][Next]_vars

\* ---- the streak record under updateStreak() calls ----

\* One updateStreak(userId, date, isBalanced) call that reads and stores the
\* record.  Dates are passed in non-decreasing order.
UpdateStreak ==
    \E date \in Days, isBalanced \in BOOLEAN :
        /\ date >= streakOp.date
        /\ streakData' = { UpdatedStreak(streakData, date, isBalanced) }
        /\ streakOp' = StreakOp(date, isBalanced, TRUE,
                                /\ streakOp.stored
                                /\ streakOp.isBalanced /\ isBalanced
                                /\ streakOp.date = date)
        /\ UNCHANGED managerVars

\* kv.get() or kv.set() rejects: the catch block returns null and nothing is
\* stored.
UpdateStreakFails ==
    \E date \in Days, isBalanced \in BOOLEAN :
        /\ date >= streakOp.date
        /\ streakOp' = StreakOp(date, isBalanced, FALSE, FALSE)
        /\ UNCHANGED << streakData, managerVars >>

StreakNext ==
    \/ UpdateStreak
    \/ UpdateStreakFails

\* The manager is idle on one host under one profile; only the streak record
\* changes.
StreakInit ==
    /\ Init
    /\ host = "ok"
    /\ bound.name = "commands"

StreakSpec == StreakInit /\ [][StreakNext]_vars


\* ---- properties ----

\* C1: every write the transport accepts carries exactly one byte, the byte is
\* a command code 0..5, and a sendCommand(c) that succeeds has had exactly one
\* write accepted, on the endpoint, with the payload << c >>.
C1_SingleByteWrite ==
    /\ lastOp.write /= NoWrite =>
        /\ Len(lastOp.write.bytes) = 1
        /\ lastOp.write.bytes[1] \in 0..5
        /\ lastOp.write.bytes[1] = lastOp.cmd
        /\ lastOp.write.char.cid /= None
    /\ (lastOp.op \in {"sendWrite", "sendFallback"} /\ lastOp.ok) =>
        /\ lastOp.write /= NoWrite
        /\ lastOp.write.bytes = << lastOp.cmd >>
        /\ lastCommand = lastOp.cmd

C1_Witness ==
    /\ lastOp.op = "sendWrite" /\ lastOp.ok
    /\ lastOp.cmd = BAD_FINISH
    /\ lastOp.write.bytes = << 5 >>

\* C2: a sendCommand() called while isConnected is false or no endpoint is
\* held ends with the "not connected" error and issues no write attempt.
C2_NotConnectedNoWrite ==
    [][ ( /\ lastOp'.op = "sendCommand"
          /\ events' = events + 1
          /\ (~isConnected \/ characteristic = NoChar) )
        => ( /\ error' = "No hay conexion Bluetooth activa"
             /\ ~lastOp'.ok
             /\ lastOp'.attempts = 0
             /\ lastOp'.write = NoWrite
             /\ sends' = sends ) ]_vars

C2_Witness ==
    /\ lastOp.op = "sendCommand" /\ ~lastOp.ok
    /\ error = "No hay conexion Bluetooth activa"
    /\ ~isConnected


SessionOpen == \E d \in Devices : gattConnected[d]

\* C3: right after the third consecutive failed reconnection attempt of a
\* retry sequence the status is Failed with the "device disconnected" error,
\* no device handle and no open session is left, the endpoint is cleared and
\* a notification has been raised; a sendCommand() after it issues no write.
C3_ExhaustedIsFailed ==
    /\ (seqOpen /\ seqFailed >= MAX_ATTEMPTS /\ lastOp.tag = "retry" /\ ~lastOp.ok) =>
        /\ Status = "Failed"
        /\ error = "Dispositivo desconectado"
        /\ device = None
        /\ ~SessionOpen
        /\ characteristic = NoChar
        /\ lastOp.notes /= << >>
    /\ (seqOpen /\ seqFailed >= MAX_ATTEMPTS /\ lastOp.op = "sendCommand") =>
        /\ ~lastOp.ok
        /\ lastOp.attempts = 0

\* C4: a disconnect() called during a backoff delay (a retry timer is
\* pending, no connect() is in flight) leaves the manager neither connected
\* nor connecting, and no timer that was pending at a disconnect() fires.
C4_DisconnectCancelsTimers ==
    /\ ( /\ lastOp.op = "disconnect"
         /\ conns = EmptyBag
         /\ \E t \in BagToSet(timers) : t.cancelled )
        => (~isConnected /\ ~isConnecting)
    /\ lastOp.op = "timerFire" => lastOp.tag /= "afterDisconnect"

\* C5: after a link loss while connected at most 3 reconnection attempts are
\* started before the status becomes Connected or Failed.
C5_AtMostThreeAttempts ==
    seqCounting => seqStarted <= MAX_ATTEMPTS

\* C6: the session close performed by disconnect() schedules no reconnection
\* attempt: no retry timer exists that a disconnect() has scheduled.
C6_DisconnectStartsNoRetry ==
    /\ lastOp.op = "disconnect" => lastOp.sched = 0
    /\ \A t \in BagToSet(timers) : t.cause /= "disconnect"

\* C7: at most one transport session is open.
C7_OneSession ==
    Cardinality({ d \in Devices : gattConnected[d] }) <= 1

\* C8: isConnected implies that the device handle is held, its link is open
\* and the endpoint is resolved.
C8_ConnectedHasSession ==
    isConnected =>
        /\ device /= None
        /\ gattConnected[device]
        /\ characteristic /= NoChar
        /\ ~characteristic.stale

\* C9: while the status is Disconnected or Failed no device handle is held,
\* no link is open and no endpoint is held.
C9_IdleHasNoSession ==
    Status \in {"Disconnected", "Failed"} =>
        /\ device = None
        /\ ~SessionOpen
        /\ characteristic = NoChar

\* C10: a connect() during which disconnect() was called never marks the
\* manager connected, and when it has finished the manager is not connected
\* and no session is open.
C10_AbandonedConnectStaysDown ==
    lastOp.abandoned =>
        /\ lastOp.tag /= "markConnected"
        /\ (lastOp.tag \in {"connected", "retry", "caller"}) =>
              (~isConnected /\ ~SessionOpen)

\* C11: at no time are two connection attempts (connect() invocations that
\* have passed the availability checks and not yet returned) in progress.
C11_OneAttemptAtATime ==
    BagCardinality(conns) <= 1

\* C12: one link loss never results in two pending reconnection timers: a
\* link loss schedules at most one timer, and none while a timer is pending.
C12_OneTimerPerLoss ==
    lastOp.op = "linkLoss" =>
        /\ lastOp.sched <= 1
        /\ BagCardinality(timers) <= 1

\* C13: the status becomes Connected only from a state in which a connection
\* attempt is shown as in progress (isConnecting).
C13_ConnectedOnlyFromConnecting ==
    [][ (isConnected' /\ ~isConnected) => isConnecting ]_vars

\* C14: right after a link loss that happened while connected the status is
\* neither Disconnected nor Failed.
C14_LossShowsReconnecting ==
    (lastOp.op = "linkLoss" /\ lastOp.tag = "connected") =>
        Status \notin {"Disconnected", "Failed"}

\* C15: when a connect() has succeeded (its initial OFF write was accepted
\* and the manager is connected) the retry counter is 0.
C15_SuccessResetsCounter ==
    ( /\ lastOp.op \in {"connectWrite", "connectFallback"} /\ lastOp.ok
      /\ isConnected ) => reconnectAttempts = 0

\* C16: the retry counter is 0 whenever the status is Connected or Failed.
C16_CounterOnlyWhileRetrying ==
    Status \in {"Connected", "Failed"} => reconnectAttempts = 0

\* C17: a disconnect() called while the status is Connected leaves no open
\* session, no endpoint, no device name, the retry counter 0 and the status
\* Disconnected.
C17_DisconnectClearsAll ==
    [][ ( /\ lastOp'.op = "disconnect"
          /\ events' = events + 1
          /\ Status = "Connected" )
        => ( /\ ~SessionOpen'
             /\ characteristic' = NoChar
             /\ deviceName' = None
             /\ reconnectAttempts' = 0
             /\ Status' = "Disconnected" ) ]_vars

\* The pending timers as the program holds them: the closures to run.  Why a
\* timer was scheduled and whether a disconnect() has been called since are
\* kept for the properties only.
PendingTimers(T) == BagOfAll(LAMBDA t : [ra |-> t.ra], T)

\* C18: a disconnect() called right after a disconnect() changes nothing: the
\* React state, the sessions, the listeners, the pending timers and the
\* suspended invocations stay as they are, no session is closed, no
\* notification is raised, no timer is scheduled and no error is set.
C18_DisconnectIdempotent ==
    [][ ( /\ lastOp.op = "disconnect"
          /\ lastOp'.op = "disconnect"
          /\ events' = events + 1 )
        => ( /\ reactVars' = reactVars
             /\ gattConnected' = gattConnected
             /\ listeners' = listeners
             /\ PendingTimers(timers') = PendingTimers(timers)
             /\ conns' = conns
             /\ sends' = sends
             /\ lastOp'.tag /= "closed"
             /\ lastOp'.notes = << >>
             /\ lastOp'.sched = 0 ) ]_vars

C18_Witness ==
    /\ lastOp.op = "disconnect" /\ lastOp.tag = "again"
    /\ reconnectAttempts > 0
    /\ timers /= EmptyBag
    /\ error /= None

\* C19: a caller-initiated connect() that fails ends with the status Failed,
\* an error message and exactly one Error notification, and a loss of the
\* link of its device right after it schedules no reconnection attempt.
C19_FailedConnectNoRetry ==
    [][ /\ (lastOp'.tag = "caller" /\ ~lastOp'.ok /\ lastOp' /= lastOp) =>
              /\ Status' = "Failed"
              /\ error' /= None
              /\ lastOp'.notes = << "Error" >>
        /\ ( /\ lastOp.tag = "caller" /\ ~lastOp.ok
             /\ lastOp'.op = "linkLoss"
             /\ lastOp'.dev = lastOp.dev ) => lastOp'.sched = 0 ]_vars

\* C20: when the user cancels the device chooser of a caller-initiated
\* connect() (requestDevice() rejects with NotFoundError) the status
\* afterwards is Disconnected.
C20_CancelIsDisconnected ==
    ( /\ lastOp.op = "requestDevice" /\ ~lastOp.ok
      /\ lastOp.tag = "caller"
      /\ error = ErrorMessage("NotFoundError") ) => Status = "Disconnected"


\* C21: from an unsolicited loss of the link while Connected until the
\* retries are exhausted nothing is reported: when a reconnection attempt of
\* the sequence has failed and fewer than three have, the error string is
\* unset, Status is not Failed, and the step has raised neither an Error nor
\* a Disconnected notification.
C21_LossNotReportedEarly ==
    (seqOpen /\ seqFailed > 0 /\ seqFailed < MAX_ATTEMPTS) =>
        /\ error = None
        /\ Status /= "Failed"
        /\ \A k \in 1..Len(lastOp.notes) :
              lastOp.notes[k] \notin {"Error", "Disconnected"}


\* C22: no call of connect() or sendCommand() ends outside success or a
\* recorded error.  A connect() refused at entry records an error; a step
\* that ends a connect() in flight is either the accepted initial write or
\* the catch block, which records a non-empty error, and in both cases
\* isConnecting is false afterwards; a sendCommand() refused by the guard
\* records the "not connected" error; a step that ends a sendCommand() in
\* flight is either an accepted write, with the error cleared, or the catch
\* block, with the send error recorded.
C22_EveryCallEndsInOutcome ==
    [][ /\ ( lastOp'.op \in {"connect", "timerFire"} /\ ~lastOp'.ok )
            => ( error' /= None /\ conns' = conns )
        /\ ( BagCardinality(conns') < BagCardinality(conns) )
            => /\ ~isConnecting'
               /\ \/ /\ lastOp'.ok
                     /\ lastOp'.op \in {"connectWrite", "connectFallback"}
                     /\ lastOp'.write /= NoWrite
                  \/ /\ ~lastOp'.ok
                     /\ error' /= None
                     /\ lastOp'.notes = << "Error" >>
        /\ ( lastOp'.op = "sendCommand" /\ events' = events + 1 /\ ~lastOp'.ok )
            => ( error' = "No hay conexion Bluetooth activa" /\ sends' = sends )
        /\ ( BagCardinality(sends') < BagCardinality(sends) )
            => \/ /\ lastOp'.ok
                  /\ lastOp'.write /= NoWrite
                  /\ error' = None
               \/ /\ ~lastOp'.ok
                  /\ error' = "Error al enviar comando al dispositivo"
      ]_vars

C22_Witness ==
    /\ lastOp.op = "requestDevice" /\ ~lastOp.ok
    /\ error = "Permiso denegado"
    /\ ~isConnecting
    /\ conns = EmptyBag


\* C23: a connect() that ends with Status Connected has recorded a device
\* name, then written OFF on the new endpoint, then raised the Connected
\* notification: the step in which its OFF write is accepted, which ends the
\* call, finds the device name recorded, carries the byte 0 on the endpoint
\* held, and is the step that raises the one Connected notification.
C23_NameThenOffThenNotify ==
    ( /\ lastOp.op \in {"connectWrite", "connectFallback"}
      /\ lastOp.ok
      /\ Status = "Connected" )
    => /\ deviceName /= None
       /\ lastOp.write.bytes = << OFF >>
       /\ lastOp.write.char = characteristic
       /\ lastOp.notes = << "Connected" >>


\* C24: when the well-known service or characteristic cannot be obtained and
\* the device has a characteristic with the write or writeWithoutResponse
\* flag, the enumeration ends with such a characteristic as the endpoint.
\* The characteristic chosen is writable and no characteristic before it in
\* its service is; when no platform call is rejected on an open session, no
\* characteristic of an earlier service is writable either, the enumeration
\* of the only connect() that has opened a session on the device does not end
\* in the "no writable characteristic" error while the session is open, and the endpoint held while connected to a device without the
\* well-known service is the first writable one in platform order.
C24_FirstWritableInOrder ==
    LET Writable(d, i, j) ==
            LET p == Layout(d).services[i][j].props
            IN p.write \/ p.writeWithoutResponse
        Positions(d) ==
            { q \in (1..Len(Layout(d).services)) \X (1..3) :
                q[2] <= Len(Layout(d).services[q[1]]) }
        Before(q1, q2) == q1[1] < q2[1] \/ (q1[1] = q2[1] /\ q1[2] < q2[2])
        FirstInService(d, q) ==
            /\ Writable(d, q[1], q[2])
            /\ \A k \in 1..(q[2] - 1) : ~Writable(d, q[1], k)
        FirstOfAll(d, q) ==
            /\ Writable(d, q[1], q[2])
            /\ \A q0 \in Positions(d) : Before(q0, q) => ~Writable(d, q0[1], q0[2])
        At(d, q) == Layout(d).services[q[1]][q[2]].cid
    IN /\ (lastOp.op = "getCharacteristics" /\ lastOp.ok) =>
            \E r \in BagToSet(conns) :
                /\ r.dev = lastOp.dev
                /\ r.pc \in {"startNotif", "writeAck"}
                /\ r.char.dev = r.dev
                /\ \E q \in Positions(r.dev) :
                      /\ At(r.dev, q) = r.char.cid
                      /\ FirstInService(r.dev, q)
                      /\ ~bound.flaky => FirstOfAll(r.dev, q)
       /\ ( /\ lastOp.op = "getCharacteristics" /\ ~lastOp.ok
            /\ lastOp.notes = << "Error" >>
            /\ ~bound.flaky
            /\ Len(listeners[lastOp.dev]) = 1
            /\ \E q \in Positions(lastOp.dev) : FirstOfAll(lastOp.dev, q) )
          => ~gattConnected[lastOp.dev]
       /\ ( /\ isConnected /\ characteristic /= NoChar
            /\ ~Layout(characteristic.dev).known
            /\ ~bound.flaky )
          => \E q \in Positions(characteristic.dev) :
                /\ At(characteristic.dev, q) = characteristic.cid
                /\ FirstOfAll(characteristic.dev, q)

C24_Witness ==
    /\ lastOp.op = "connectFallback" /\ lastOp.ok
    /\ lastOp.write.char = Handle("d2", "wwr")
    /\ ~bound.flaky
    /\ Status = "Connected"
    /\ device = "d2"
    /\ characteristic = Handle("d2", "wwr")
    /\ ~Layout("d2").known


\* C25: a connect() uses no session or endpoint of an earlier one.  Every
\* connect() in flight starts without device and endpoint, holds no endpoint
\* before its own resolution has finished, and afterwards holds an endpoint
\* of the device it has selected itself; the endpoint recorded when it marks
\* the manager connected is the one it has just resolved; a sendCommand()
\* writes to the endpoint recorded at that moment; and no write is accepted
\* on an endpoint of a session that has been closed.
C25_FreshDiscovery ==
    /\ \A r \in BagToSet(conns) :
          /\ r.pc = "reqDev" => (r.dev = None /\ r.char = NoChar)
          /\ r.pc /= "reqDev" => r.dev /= None
          /\ r.pc \in {"gattConn", "getSvc", "getChar", "getSvcs", "getChars"}
                => r.char = NoChar
          /\ r.pc \in {"startNotif", "writeAck", "writeNoAck"}
                => (r.char /= NoChar /\ r.char.dev = r.dev)
    /\ lastOp.tag = "markConnected" =>
          /\ characteristic.dev = lastOp.dev
          /\ \E r \in BagToSet(conns) :
                r.pc = "writeAck" /\ r.dev = lastOp.dev /\ r.char = characteristic
    /\ (lastOp.op = "sendCommand" /\ lastOp.ok) =>
          \E x \in BagToSet(sends) :
              x.pc = "writeAck" /\ x.cmd = lastOp.cmd /\ x.char = characteristic
    /\ lastOp.write /= NoWrite =>
          (~lastOp.write.char.stale /\ gattConnected[lastOp.write.char.dev])

\* A second connect() has selected d1 again after a disconnect() closed the
\* session of the first, is the only connect() in flight, and has resolved
\* and recorded its endpoint.
C25_Witness ==
    /\ lastOp.tag = "markConnected" /\ lastOp.dev = "d1"
    /\ Len(listeners["d1"]) = 2
    /\ BagCardinality(conns) = 1
    /\ \E t \in BagToSet(timers) : t.cause = "disconnect"
    /\ characteristic = Handle("d1", "arduino")
    /\ gattConnected["d1"]


\* C26: on an endpoint that advertises only writeWithoutResponse, a
\* sendCommand(WATER) that succeeds has delivered the single byte 1 by an
\* unacknowledged write, after the acknowledged one was rejected, has raised
\* exactly one HydrationReminder notification, and has cleared the error and
\* recorded WATER as the last command.
C26_UnackedOnlyWater ==
    ( /\ lastOp.op \in {"sendWrite", "sendFallback"}
      /\ lastOp.ok
      /\ lastOp.cmd = WATER
      /\ ~PropsOf(lastOp.write.char.dev, lastOp.write.char.cid).write
      /\ PropsOf(lastOp.write.char.dev, lastOp.write.char.cid).writeWithoutResponse )
    => /\ lastOp.op = "sendFallback"
       /\ lastOp.write.mode = "noack"
       /\ lastOp.write.bytes = << 1 >>
       /\ lastOp.notes = << "HydrationReminder" >>
       /\ error = None
       /\ lastCommand = WATER

C26_Witness ==
    /\ lastOp.op = "sendFallback" /\ lastOp.ok
    /\ lastOp.cmd = WATER
    /\ lastOp.write.char = Handle("d2", "wwr")
    /\ lastOp.write.mode = "noack"
    /\ lastOp.notes = << "HydrationReminder" >>
    /\ isConnected /\ characteristic = Handle("d2", "wwr")


\* C27: the write mode follows the capability flags of the endpoint: a
\* sendCommand() that passes the guard issues an acknowledged write only on
\* an endpoint that advertises write.
C27_ModeFollowsFlags ==
    ( /\ lastOp.op = "sendCommand"
      /\ lastOp.ok
      /\ lastOp.attempts = 1 )
    => \A x \in BagToSet(sends) :
          (x.pc = "writeAck" /\ x.cmd = lastOp.cmd)
              => PropsOf(x.char.dev, x.char.cid).write

\* C28: the unacknowledged write of a sendCommand() is attempted only after
\* the transport has rejected the acknowledged one as unsupported: a call
\* waits for its fallback write only on an endpoint that does not advertise
\* write.
C28_FallbackOnlyIfUnsupported ==
    \A x \in BagToSet(sends) :
        x.pc = "writeNoAck" => ~PropsOf(x.char.dev, x.char.cid).write

\* C29: a HydrationReminder notification is raised by a step exactly when
\* the step is an accepted write of the WATER code, and then once: no other
\* accepted write, no rejected write and no refused sendCommand() raises it.
C29_HydrationOnlyOnWater ==
    /\ (lastOp.write /= NoWrite /\ lastOp.write.bytes = << WATER >>)
          => lastOp.notes = << "HydrationReminder" >>
    /\ ~(lastOp.write /= NoWrite /\ lastOp.write.bytes = << WATER >>)
          => \A k \in 1..Len(lastOp.notes) : lastOp.notes[k] /= "HydrationReminder"

C29_Witness ==
    /\ lastOp.op = "sendWrite" /\ lastOp.ok
    /\ lastOp.cmd = WATER
    /\ lastOp.write.mode = "ack"
    /\ lastOp.write.bytes = << 1 >>
    /\ lastOp.notes = << "HydrationReminder" >>

\* C30: the last command changes only in a step in which a write is
\* accepted, and then to the code written.
C30_LastCommandIsLastSent ==
    [][ lastCommand' /= lastCommand
          => (lastOp'.write /= NoWrite /\ lastOp'.write.bytes = << lastCommand' >>) ]_vars


\* C31: a sendCommand() called while Status is not Connected has no side
\* effect: Status, the error string, the device name, the session, the
\* endpoint, the last command and reconnectAttempts are what they were
\* before the call, and no notification is raised.
C31_RefusedSendNoEffect ==
    [][ ( /\ lastOp'.op = "sendCommand"
          /\ events' = events + 1
          /\ Status /= "Connected" )
        => ( /\ Status' = Status
             /\ error' = error
             /\ deviceName' = deviceName
             /\ device' = device
             /\ gattConnected' = gattConnected
             /\ characteristic' = characteristic
             /\ lastCommand' = lastCommand
             /\ reconnectAttempts' = reconnectAttempts
             /\ lastOp'.notes = << >> ) ]_vars


\* C32: when the write of a sendCommand() issued while Connected is
\* rejected, the call records the error and changes nothing else: the step
\* that ends the call in its catch block leaves isConnected and the endpoint
\* as they were, so a manager that was Connected is still Connected.
C32_FailedSendKeepsStatus ==
    [][ ( /\ BagCardinality(sends') < BagCardinality(sends)
          /\ ~lastOp'.ok
          /\ isConnected )
        => ( /\ isConnected'
             /\ characteristic' = characteristic
             /\ error' = "Error al enviar comando al dispositivo" ) ]_vars


\* C33: within one retry sequence the n-th reconnection attempt is delayed
\* by 1000 * n ms: when a timer fires and starts the n-th attempt of the
\* sequence, and every connect() in flight is a reconnection attempt, the
\* connect() just started was scheduled with the delay 1000 * n.
C33_LinearBackoff ==
    ( /\ seqCounting /\ seqStarted > 0
      /\ lastOp.op = "timerFire" /\ lastOp.ok
      /\ \A r \in BagToSet(conns) : r.byTimer )
    => \E r \in BagToSet(conns) :
          /\ r.pc = "reqDev"
          /\ Backoff(r.ra) = BACKOFF_UNIT * seqStarted


\* C34: reconnectAttempts is an integer in 0..3 in every reachable state.
C34_CounterInRange ==
    reconnectAttempts \in 0..MAX_ATTEMPTS

\* The link is lost with the counter at 3: the listener that captured 3 gives
\* up and the counter stays 3.
C34_Witness ==
    /\ reconnectAttempts = MAX_ATTEMPTS
    /\ lastOp.op = "linkLoss"
    /\ lastOp.notes = << "Disconnected" >>
    /\ \E k \in 1..Len(listeners["d1"]) : listeners["d1"][k] = MAX_ATTEMPTS


\* C35: a device on which the well-known lookup fails and no enumerated
\* characteristic has the write or writeWithoutResponse flag never gets an
\* endpoint: no connect() that selected it subscribes or writes, the manager
\* is never marked connected on it, and the step that ends its enumeration
\* records the "no writable characteristic" error with the manager neither
\* connected nor connecting, holding no endpoint, and raises only the Error
\* notification; connect() can be called again.
C35_NoEndpointFails ==
    LET Unwritable(d) ==
            /\ d \in Devices
            /\ ~Layout(d).known
            /\ \A x \in AllChars(d) :
                  ~x.props.write /\ ~x.props.writeWithoutResponse
    IN /\ \A r \in BagToSet(conns) :
             Unwritable(r.dev) =>
                 /\ r.pc \notin {"startNotif", "writeAck", "writeNoAck"}
                 /\ r.char = NoChar
       /\ ~Unwritable(characteristic.dev)
       /\ lastOp.tag = "markConnected" => ~Unwritable(lastOp.dev)
       /\ lastOp.write /= NoWrite => ~Unwritable(lastOp.write.char.dev)
       /\ ( /\ lastOp.op = "getCharacteristics"
            /\ lastOp.notes = << "Error" >>
            /\ Unwritable(lastOp.dev) )
          => /\ error = "NoWritableCharacteristic"
             /\ ~isConnected /\ ~isConnecting
             /\ characteristic = NoChar
             /\ lastOp.write = NoWrite
             /\ lastOp.attempts = 0
             /\ host = "ok"

C35_Witness ==
    /\ lastOp.op = "getCharacteristics" /\ ~lastOp.ok
    /\ lastOp.dev = "d3"
    /\ gattConnected["d3"]
    /\ error = "NoWritableCharacteristic"
    /\ Status = "Failed"


\* C36: on a host without Web Bluetooth or outside a secure context a
\* connect() records the corresponding error and does nothing else: no
\* connect() is in flight afterwards, isConnecting, isConnected, the device,
\* the endpoint and every session are what they were, no timer is scheduled
\* and no notification is raised.
C36_UnavailableHost ==
    [][ ( /\ lastOp'.op = "connect"
          /\ events' = events + 1
          /\ host /= "ok" )
        => ( /\ error' = host
             /\ ~lastOp'.ok
             /\ conns' = conns
             /\ isConnecting' = isConnecting
             /\ isConnected' = isConnected
             /\ device' = device
             /\ characteristic' = characteristic
             /\ gattConnected' = gattConnected
             /\ listeners' = listeners
             /\ timers' = timers
             /\ lastOp'.notes = << >>
             /\ lastOp'.sched = 0 ) ]_vars

C36_Witness ==
    /\ host = "NoSecureContext"
    /\ lastOp.op = "connect" /\ ~lastOp.ok
    /\ error = "NoSecureContext"
    /\ ~isConnecting /\ ~isConnected
    /\ conns = EmptyBag


\* C37: the status is single-valued: isConnected and isConnecting are never
\* both true.
C37_NotConnectedAndConnecting ==
    ~(isConnected /\ isConnecting)

\* C38: a Connected notification is raised only by a connect() that returns
\* connected: the step in which a connect() ends in its catch block because
\* the initial OFF write was rejected does not follow the step in which that
\* connect(), the only one in flight, raised the Connected notification.
C38_ConnectedOnlyOnSuccess ==
    [][ ~( /\ lastOp.tag = "markConnected"
           /\ lastOp.notes = << "Connected" >>
           /\ BagCardinality(conns) = 1
           /\ lastOp'.op \in {"connectWrite", "connectFallback"}
           /\ ~lastOp'.ok
           /\ lastOp'.notes = << "Error" >>
           /\ ~isConnected'
           /\ characteristic' = NoChar ) ]_vars


\* C39: starting from the absent record and after any sequence of
\* updateStreak() calls with non-decreasing dates, the stored record has
\* 0 <= currentStreak <= longestStreak and a lastBalancedDate whenever
\* currentStreak > 0; and a call that repeats the stored call before it, with
\* the same date and isBalanced true, leaves the record unchanged.
C39_StreakInvariant ==
    /\ [](\A r \in streakData :
            /\ 0 <= r.currentStreak
            /\ r.currentStreak <= r.longestStreak
            /\ r.currentStreak > 0 => r.lastBalancedDate /= -1)
    /\ [][ streakOp'.repeated => streakData' = streakData ]_vars

\* A streak of three days was broken, a new one has started, and its first
\* call has been repeated.
C39_Witness ==
    /\ streakOp.repeated
    /\ \E r \in streakData :
          /\ r.currentStreak = 1
          /\ r.longestStreak = 3
          /\ r.lastBalancedDate = streakOp.date

====
